---- MODULE Spec2Model ----
(***************************************************************************)
(* The WQL parser of wql/src/lib.rs as a state machine.                    *)
(*                                                                         *)
(* A character is a one-character string and a Rust String a sequence of   *)
(* characters.  The Chars iterator over the query text is the pair         *)
(* (input, pos): pos characters of input have been consumed.  Every parse  *)
(* function of the source is one action; the two loops of the source, the  *)
(* map loop of read_map and the try_fold of read_str, advance by one       *)
(* iteration per step.                                                     *)
(***************************************************************************)
EXTENDS Integers, Sequences, FiniteSets, TLC

VARIABLES query, input, pos, pc, a, key, res, last_was_escape, s, ret, result

vars == <<query, input, pos, pc, a, key, res, last_was_escape, s, ret, result>>

(***************************************************************************)
(* Characters.  The model's alphabet is the ASCII part of Rust's char      *)
(* classes.                                                                *)
(***************************************************************************)
LowerLetters ==
  << "a","b","c","d","e","f","g","h","i","j","k","l","m",
     "n","o","p","q","r","s","t","u","v","w","x","y","z" >>

UpperLetters ==
  << "A","B","C","D","E","F","G","H","I","J","K","L","M",
     "N","O","P","Q","R","S","T","U","V","W","X","Y","Z" >>

Digits == << "0","1","2","3","4","5","6","7","8","9" >>

Range(q) == { q[i] : i \in 1..Len(q) }

IndexOf(q, c) == CHOOSE i \in 1..Len(q) : q[i] = c

\* a slip of is_whitespace: the space alone counts
is_whitespace_space_only(c) == c = " "

\* char::is_whitespace
is_whitespace(c) == c \in {" ", "\t", "\n", "\r"}

\* char::is_alphanumeric
is_alphanumeric(c) ==
  c \in Range(LowerLetters) \cup Range(UpperLetters) \cup Range(Digits)

\* a slip of is_name_char: the underscore is forgotten
is_name_char_no_underscore(c) == is_alphanumeric(c)

\* the predicate |c| c.is_alphanumeric() || c == &'_'
is_name_char(c) == is_alphanumeric(c) \/ c = "_"

\* the predicate |c| !c.is_whitespace()
not_whitespace(c) == ~is_whitespace(c)

\* the closures handed to take_while and skip_while, as functions on the
\* characters of the text
while_whitespace == [c \in Range(input) |-> is_whitespace(c)]

while_not_whitespace == [c \in Range(input) |-> not_whitespace(c)]

while_name_char == [c \in Range(input) |-> is_name_char(c)]

\* the predicate |c| !c.is_whitespace() && c != &','
is_value_char(c) == ~is_whitespace(c) /\ c # ","

while_value_char == [c \in Range(input) |-> is_value_char(c)]

to_uppercase_char(c) ==
  IF c \in Range(LowerLetters) THEN UpperLetters[IndexOf(LowerLetters, c)] ELSE c

to_lowercase_char(c) ==
  IF c \in Range(UpperLetters) THEN LowerLetters[IndexOf(UpperLetters, c)] ELSE c

\* a slip of to_uppercase: the text is compared as written
to_uppercase_as_written(str) == str

\* str::to_uppercase, str::to_lowercase
to_uppercase(str) == [i \in 1..Len(str) |-> to_uppercase_char(str[i])]

to_lowercase(str) == [i \in 1..Len(str) |-> to_lowercase_char(str[i])]

\* str::trim: the alphanumeric/underscore runs it is applied to hold no
\* whitespace, the general definition is kept all the same.
trim(str) ==
  LET keep == { i \in 1..Len(str) : ~is_whitespace(str[i]) }
  IN IF keep = {} THEN <<>>
     ELSE SubSeq(str, CHOOSE i \in keep : \A j \in keep : i <= j,
                      CHOOSE i \in keep : \A j \in keep : j <= i)

None == [some |-> FALSE]

Some(v) == [some |-> TRUE, v |-> v]

(***************************************************************************)
(* The cursor.                                                             *)
(***************************************************************************)
\* The index of the first character after position p that fails P, or
\* Len(input) + 1 when every remaining character satisfies P.
RunEnd(P, p) ==
  LET stops == { i \in (p + 1)..Len(input) : ~P[input[i]] }
  IN IF stops = {} THEN Len(input) + 1
     ELSE CHOOSE i \in stops : \A j \in stops : i <= j

\* a slip of take_while: the character that ends the run is left in place
take_while_keeps_delimiter(P, p) ==
  LET e == RunEnd(P, p)
  IN [str |-> SubSeq(input, p + 1, e - 1), pos |-> e - 1]

\* Iterator::take_while on the cursor at p, collected: the run, and the
\* cursor after it.  The character that ends the run is consumed as well.
take_while(P, p) ==
  LET e == RunEnd(P, p)
  IN [str |-> SubSeq(input, p + 1, e - 1),
      pos |-> IF e > Len(input) THEN Len(input) ELSE e]

\* Iterator::skip_while on the cursor at p: the cursor in front of the first
\* character that fails P (skip_while hands that character on).
skip_while(P, p) == RunEnd(P, p) - 1

\* str::trim_start: the number of leading whitespace characters of input.
trim_start == skip_while(while_whitespace, 0)

(***************************************************************************)
(* Values and results.                                                     *)
(***************************************************************************)
\* enum Types.  Vector and Map are declared and never built by the parser.
Char(c) == [type |-> "Char", v |-> c]

Integer(n) == [type |-> "Integer", v |-> n]

String(str) == [type |-> "String", v |-> str]

Uuid(u) == [type |-> "Uuid", v |-> u]

Float(f) == [type |-> "Float", v |-> f]

Boolean(b) == [type |-> "Boolean", v |-> b]

Nil == [type |-> "Nil"]

\* enum Wql
CreateEntity(name) == [cmd |-> "CreateEntity", name |-> name]

Insert(name, entity) == [cmd |-> "Insert", name |-> name, entity |-> entity]

\* Result<_, String>.  An error string is its format template and the
\* characters substituted for the template's {} places, in order.  The
\* backquotes of the source's templates are written as apostrophes.
Ok(v) == [ok |-> TRUE, v |-> v]

Err(e) == [ok |-> FALSE, e |-> e]

format(template, args) == [text |-> template, args |-> args]

\* HashMap::new and HashMap::insert: a map is a function from its keys.
EmptyMap == << >>

map_insert(m, k, v) ==
  [x \in (DOMAIN m) \cup {k} |-> IF x = k THEN v ELSE m[x]]

(***************************************************************************)
(* The conversions parse_value tries on an unquoted token.  A whole number *)
(* is its sign and its decimal digits without leading zeros, so that       *)
(* isize keeps its 64-bit range; a float is the exact decimal the text     *)
(* denotes (sign, significant digits, power of ten), f64 rounding and NaN's *)
(* inequality to itself left out.                                          *)
(***************************************************************************)
DigitValue(c) == IndexOf(Digits, c) - 1

DigitValues(str) == [i \in 1..Len(str) |-> DigitValue(str[i])]

AllDigits(str) == \A i \in 1..Len(str) : str[i] \in Range(Digits)

StripLeadingZeros(d) ==
  LET nz == { i \in 1..Len(d) : d[i] # 0 }
  IN IF nz = {} THEN <<>>
     ELSE SubSeq(d, CHOOSE i \in nz : \A j \in nz : i <= j, Len(d))

StripTrailingZeros(d) ==
  LET nz == { i \in 1..Len(d) : d[i] # 0 }
  IN IF nz = {} THEN <<>>
     ELSE SubSeq(d, 1, CHOOSE i \in nz : \A j \in nz : j <= i)

\* m > lim, both digit sequences without leading zeros
Exceeds(m, lim) ==
  \/ Len(m) > Len(lim)
  \/ /\ Len(m) = Len(lim)
     /\ \E i \in 1..Len(m) : m[i] > lim[i] /\ \A j \in 1..(i - 1) : m[j] = lim[j]

\* isize::MAX = 9223372036854775807 and the magnitude of isize::MIN
IsizeMaxMag == << 9,2,2,3,3,7,2,0,3,6,8,5,4,7,7,5,8,0,7 >>

IsizeMinMag == << 9,2,2,3,3,7,2,0,3,6,8,5,4,7,7,5,8,0,8 >>

HasSign(str) == Len(str) > 0 /\ str[1] \in {"+", "-"}

\* a slip of parse_isize: the largest magnitude itself is taken as overflow
parse_isize_exclusive_max(value) ==
  LET digs == IF HasSign(value) THEN Tail(value) ELSE value
      neg  == HasSign(value) /\ value[1] = "-"
      mag  == StripLeadingZeros(DigitValues(digs))
      lim  == IF neg THEN IsizeMinMag ELSE IsizeMaxMag
  IN IF Len(digs) = 0 \/ ~AllDigits(digs) THEN None
     ELSE IF Exceeds(mag, lim) \/ mag = lim THEN None
     ELSE Some([neg |-> neg /\ mag # <<>>, mag |-> mag])

\* value.parse::<isize>()
parse_isize(value) ==
  LET digs == IF HasSign(value) THEN Tail(value) ELSE value
      neg  == HasSign(value) /\ value[1] = "-"
      mag  == StripLeadingZeros(DigitValues(digs))
  IN IF Len(digs) = 0 \/ ~AllDigits(digs) THEN None
     ELSE IF Exceeds(mag, IF neg THEN IsizeMinMag ELSE IsizeMaxMag) THEN None
     ELSE Some([neg |-> neg /\ mag # <<>>, mag |-> mag])

RECURSIVE to_nat(_)
to_nat(d) == IF d = <<>> THEN 0 ELSE 10 * to_nat(SubSeq(d, 1, Len(d) - 1)) + d[Len(d)]

\* value.parse::<f64>(): Sign? ( inf | infinity | nan | Number ), with
\* Number ::= ( Digit+ | Digit+ . Digit* | Digit* . Digit+ ) Exp? and
\* Exp ::= e Sign? Digit+, letters in either case.
parse_f64(value) ==
  LET body  == IF HasSign(value) THEN Tail(value) ELSE value
      neg   == HasSign(value) /\ value[1] = "-"
      low   == to_lowercase(body)
      es    == { i \in 1..Len(low) : low[i] = "e" }
      epos  == IF es = {} THEN Len(low) + 1
               ELSE CHOOSE i \in es : \A j \in es : i <= j
      mant  == SubSeq(low, 1, epos - 1)
      etxt  == SubSeq(low, epos + 1, Len(low))
      edigs == IF HasSign(etxt) THEN Tail(etxt) ELSE etxt
      eneg  == HasSign(etxt) /\ etxt[1] = "-"
      dots  == { i \in 1..Len(mant) : mant[i] = "." }
      dpos  == IF dots = {} THEN Len(mant) + 1 ELSE CHOOSE i \in dots : TRUE
      ip    == SubSeq(mant, 1, dpos - 1)
      fp    == SubSeq(mant, dpos + 1, Len(mant))
      expOk == es = {} \/ (Len(edigs) > 0 /\ AllDigits(edigs))
      numOk == /\ Cardinality(dots) <= 1
               /\ AllDigits(ip) /\ AllDigits(fp)
               /\ Len(ip) + Len(fp) > 0
               /\ expOk
      e10   == IF es = {} THEN 0
               ELSE IF eneg THEN 0 - to_nat(DigitValues(edigs))
               ELSE to_nat(DigitValues(edigs))
      lead  == StripLeadingZeros(DigitValues(ip \o fp))
      sig   == StripTrailingZeros(lead)
  IN IF low \in { <<"i","n","f">>, <<"i","n","f","i","n","i","t","y">> }
       THEN Some([kind |-> "inf", neg |-> neg])
     ELSE IF low = <<"n","a","n">> THEN Some([kind |-> "nan"])
     ELSE IF ~numOk THEN None
     ELSE IF sig = <<>> THEN Some([kind |-> "num", neg |-> FALSE, sig |-> <<>>, exp |-> 0])
     ELSE Some([kind |-> "num", neg |-> neg, sig |-> sig,
                exp |-> e10 - Len(fp) + (Len(lead) - Len(sig))])

is_hex_digit(c) ==
  c \in Range(Digits) \cup {"a","b","c","d","e","f","A","B","C","D","E","F"}

UrnPrefix == << "u","r","n",":","u","u","i","d",":" >>

HyphenAt == {9, 14, 19, 24}

\* uuid::Uuid::from_str: 32 hexadecimal digits, plain or in the hyphenated
\* 8-4-4-4-12 grouping, the latter optionally behind urn:uuid:
parse_uuid(value) ==
  LET urn  == Len(value) = 45 /\ SubSeq(value, 1, 9) = UrnPrefix
      body == IF urn THEN SubSeq(value, 10, Len(value)) ELSE value
      simple == Len(body) = 32 /\ ~urn /\ \A i \in 1..32 : is_hex_digit(body[i])
      hyphenated ==
        /\ Len(body) = 36
        /\ \A i \in 1..36 : IF i \in HyphenAt THEN body[i] = "-"
                                              ELSE is_hex_digit(body[i])
      hex == { i \in 1..Len(body) : body[i] # "-" }
      nth(k) == CHOOSE i \in hex : Cardinality({ j \in hex : j < i }) = k - 1
  IN IF simple \/ hyphenated
       THEN Some([k \in 1..32 |-> to_lowercase_char(body[nth(k)])])
       ELSE None

\* value.parse::<bool>()
parse_bool(value) ==
  IF value = <<"t","r","u","e">> THEN Some(TRUE)
  ELSE IF value = <<"f","a","l","s","e">> THEN Some(FALSE)
  ELSE None

\* a slip of infer: the float conversion is tried before the integer one
infer_float_first(value) ==
  IF parse_f64(value).some THEN Ok(Float(parse_f64(value).v))
  ELSE IF parse_isize(value).some THEN Ok(Integer(parse_isize(value).v))
  ELSE IF parse_uuid(value).some THEN Ok(Uuid(parse_uuid(value).v))
  ELSE IF parse_bool(value).some THEN Ok(Boolean(parse_bool(value).v))
  ELSE IF to_lowercase(value) = <<"n","i","l">> THEN Ok(Nil)
  ELSE IF value[1] = "'" /\ value[Len(value)] = "'" /\ Len(value) = 3
    THEN Ok(Char(value[2]))
  ELSE Err(format("Value Type could not be created from {}", value))

\* a slip of infer: the UUID conversion is tried before the float one
infer_uuid_before_float(value) ==
  IF parse_isize(value).some THEN Ok(Integer(parse_isize(value).v))
  ELSE IF parse_uuid(value).some THEN Ok(Uuid(parse_uuid(value).v))
  ELSE IF parse_f64(value).some THEN Ok(Float(parse_f64(value).v))
  ELSE IF parse_bool(value).some THEN Ok(Boolean(parse_bool(value).v))
  ELSE IF to_lowercase(value) = <<"n","i","l">> THEN Ok(Nil)
  ELSE IF value[1] = "'" /\ value[Len(value)] = "'" /\ Len(value) = 3
    THEN Ok(Char(value[2]))
  ELSE Err(format("Value Type could not be created from {}", value))

\* the chain of conversions of parse_value, the first that succeeds wins
infer(value) ==
  IF parse_isize(value).some THEN Ok(Integer(parse_isize(value).v))
  ELSE IF parse_f64(value).some THEN Ok(Float(parse_f64(value).v))
  ELSE IF parse_uuid(value).some THEN Ok(Uuid(parse_uuid(value).v))
  ELSE IF parse_bool(value).some THEN Ok(Boolean(parse_bool(value).v))
  ELSE IF to_lowercase(value) = <<"n","i","l">> THEN Ok(Nil)
  ELSE IF value[1] = "'" /\ value[Len(value)] = "'" /\ Len(value) = 3
    THEN Ok(Char(value[2]))
  ELSE Err(format("Value Type could not be created from {}", value))

\* parse_value on an unquoted token whose first character c is consumed and
\* whose rest starts at cursor p: the result and the cursor after it
parse_value(c, p) ==
  LET rest  == take_while(while_value_char, p)
      value == <<c>> \o rest.str
  IN [r |-> infer(value), pos |-> rest.pos]

\* a slip of parse_key: the cursor is put back before the key's first character
parse_key_rewinds(c, p) ==
  LET key_rest == take_while(while_name_char, p)
  IN [r |-> <<c>> \o key_rest.str, pos |-> p - 1]

\* parse_key: the key and the cursor after it
parse_key(c, p) ==
  LET key_rest == take_while(while_name_char, p)
  IN [r |-> <<c>> \o key_rest.str, pos |-> key_rest.pos]

(***************************************************************************)
(* The parse functions.  Each returns what the function decides: where the *)
(* parser goes next, the cursor, and the values it produced.               *)
(***************************************************************************)
REATE == << "R","E","A","T","E" >>

NSERT == << "N","S","E","R","T" >>

ENTITY == << "E","N","T","I","T","Y" >>

INTO == << "I","N","T","O" >>

\* String::from(text) as an error string
String_from(text) == format(text, << >>)

\* read_symbol's match on (a, symbol.to_uppercase()), with symbol read at p
match_symbol(c, p) ==
  LET symbol == take_while(while_not_whitespace, p)
      upper  == to_uppercase(symbol.str)
  IN IF c \in {"c", "C"} /\ upper = REATE
       THEN [next |-> "create_entity", pos |-> symbol.pos]
     ELSE IF c \in {"i", "I"} /\ upper = NSERT
       THEN [next |-> "insert", pos |-> symbol.pos]
     ELSE [next |-> "done", pos |-> symbol.pos,
           r |-> Err(format("Symbol '{}{}' not implemented", <<c>> \o symbol.str))]

\* a slip of create_entity: text left behind the name is an error
parse_create_entity_rejects_rest(p) ==
  LET entity_symbol == take_while(while_not_whitespace, p)
      entity_name   == take_while(while_name_char, entity_symbol.pos)
  IN IF to_uppercase(entity_symbol.str) # ENTITY
       THEN [r |-> Err(String_from("Keyword ENTITY is required for CREATE")),
             pos |-> entity_symbol.pos]
     ELSE IF entity_name.pos < Len(input)
       THEN [r |-> Err(String_from("Unexpected text after the entity name")),
             pos |-> entity_name.pos]
       ELSE [r |-> Ok(CreateEntity(trim(entity_name.str))),
             pos |-> entity_name.pos]

\* a slip of create_entity: whitespace before the keyword and before the
\* name is skipped
parse_create_entity_skips_whitespace(p) ==
  LET entity_symbol == take_while(while_not_whitespace, skip_while(while_whitespace, p))
      entity_name   == take_while(while_name_char,
                                  skip_while(while_whitespace, entity_symbol.pos))
  IN IF to_uppercase(entity_symbol.str) # ENTITY
       THEN [r |-> Err(String_from("Keyword ENTITY is required for CREATE")),
             pos |-> entity_symbol.pos]
       ELSE [r |-> Ok(CreateEntity(trim(entity_name.str))),
             pos |-> entity_name.pos]

\* a slip of create_entity: the keyword is read and not compared
parse_create_entity_unchecked(p) ==
  LET entity_symbol == take_while(while_not_whitespace, p)
      entity_name   == take_while(while_name_char, entity_symbol.pos)
  IN [r |-> Ok(CreateEntity(trim(entity_name.str))), pos |-> entity_name.pos]

\* create_entity from the cursor p
parse_create_entity(p) ==
  LET entity_symbol == take_while(while_not_whitespace, p)
      entity_name   == take_while(while_name_char, entity_symbol.pos)
  IN IF to_uppercase(entity_symbol.str) # ENTITY
       THEN [r |-> Err(String_from("Keyword ENTITY is required for CREATE")),
             pos |-> entity_symbol.pos]
       ELSE [r |-> Ok(CreateEntity(trim(entity_name.str))),
             pos |-> entity_name.pos]

\* a slip of insert: the keyword is read and not compared
parse_into_unchecked(entity_map, p) ==
  LET entity_symbol == take_while(while_not_whitespace, skip_while(while_whitespace, p))
      name_run      == take_while(while_name_char, entity_symbol.pos)
      entity_name   == trim(name_run.str)
  IN IF entity_name = << >>
       THEN [r |-> Err(String_from("Entity name is required after INTO")),
             pos |-> name_run.pos]
     ELSE [r |-> Ok(Insert(entity_name, entity_map)), pos |-> name_run.pos]

\* a slip of insert: an empty entity name is let through
parse_into_any_name(entity_map, p) ==
  LET entity_symbol == take_while(while_not_whitespace, skip_while(while_whitespace, p))
      name_run      == take_while(while_name_char, entity_symbol.pos)
      entity_name   == trim(name_run.str)
  IN IF to_uppercase(entity_symbol.str) # INTO
       THEN [r |-> Err(String_from("Keyword INTO is required for INSERT")),
             pos |-> entity_symbol.pos]
     ELSE [r |-> Ok(Insert(entity_name, entity_map)), pos |-> name_run.pos]

\* insert after read_map returned entity_map with the cursor at p
parse_into(entity_map, p) ==
  LET entity_symbol == take_while(while_not_whitespace, skip_while(while_whitespace, p))
      name_run      == take_while(while_name_char, entity_symbol.pos)
      entity_name   == trim(name_run.str)
  IN IF to_uppercase(entity_symbol.str) # INTO
       THEN [r |-> Err(String_from("Keyword INTO is required for INSERT")),
             pos |-> entity_symbol.pos]
     ELSE IF entity_name = << >>
       THEN [r |-> Err(String_from("Entity name is required after INTO")),
             pos |-> name_run.pos]
     ELSE [r |-> Ok(Insert(entity_name, entity_map)), pos |-> name_run.pos]

\* a slip of read_map: the comma is not taken as a separator
map_arm_comma_starts_token(c, key_pending) ==
  IF c = "}" THEN "return"
  ELSE IF ~is_whitespace(c)
    THEN (IF key_pending THEN "value" ELSE "key")
  ELSE "skip"

\* a slip of read_map: a closing brace met while a key is pending is read
\* as the start of that key's value
map_arm_brace_completes_entry(c, key_pending) ==
  IF c = "}" /\ ~key_pending THEN "return"
  ELSE IF ~is_whitespace(c) /\ c # ","
    THEN (IF key_pending THEN "value" ELSE "key")
  ELSE "skip"

\* the arm of read_map's match that the next character c selects, given
\* whether a key is pending
map_arm(c, key_pending) ==
  IF c = "}" THEN "return"
  ELSE IF ~is_whitespace(c) /\ c # ","
    THEN (IF key_pending THEN "value" ELSE "key")
  ELSE "skip"

\* a slip of read_str: the escape r gives a newline
fold_str_r_as_newline(esc, str, c) ==
  IF esc
    THEN IF c = "t" THEN [tag |-> "continue", esc |-> FALSE, s |-> Append(str, "\t")]
         ELSE IF c = "r" THEN [tag |-> "continue", esc |-> FALSE, s |-> Append(str, "\n")]
         ELSE IF c = "n" THEN [tag |-> "continue", esc |-> FALSE, s |-> Append(str, "\n")]
         ELSE IF c = "\\" THEN [tag |-> "continue", esc |-> FALSE, s |-> Append(str, "\\")]
         ELSE IF c = "\"" THEN [tag |-> "continue", esc |-> FALSE, s |-> Append(str, "\"")]
         ELSE [tag |-> "break",
               r |-> Err(format("Invalid escape sequence \\{}", <<c>>))]
  ELSE IF c = "\"" THEN [tag |-> "break", r |-> Ok(String(str))]
  ELSE IF c = "\\" THEN [tag |-> "continue", esc |-> TRUE, s |-> str]
  ELSE [tag |-> "continue", esc |-> FALSE, s |-> Append(str, c)]

\* a slip of read_str: an escape it does not know is copied as written
fold_str_lenient(esc, str, c) ==
  IF esc
    THEN IF c = "t" THEN [tag |-> "continue", esc |-> FALSE, s |-> Append(str, "\t")]
         ELSE IF c = "r" THEN [tag |-> "continue", esc |-> FALSE, s |-> Append(str, "\r")]
         ELSE IF c = "n" THEN [tag |-> "continue", esc |-> FALSE, s |-> Append(str, "\n")]
         ELSE [tag |-> "continue", esc |-> FALSE, s |-> Append(str, c)]
  ELSE IF c = "\"" THEN [tag |-> "break", r |-> Ok(String(str))]
  ELSE IF c = "\\" THEN [tag |-> "continue", esc |-> TRUE, s |-> str]
  ELSE [tag |-> "continue", esc |-> FALSE, s |-> Append(str, c)]

\* the closure of read_str's try_fold on the accumulator (esc, str) and the
\* character c
fold_str(esc, str, c) ==
  IF esc
    THEN IF c = "t" THEN [tag |-> "continue", esc |-> FALSE, s |-> Append(str, "\t")]
         ELSE IF c = "r" THEN [tag |-> "continue", esc |-> FALSE, s |-> Append(str, "\r")]
         ELSE IF c = "n" THEN [tag |-> "continue", esc |-> FALSE, s |-> Append(str, "\n")]
         ELSE IF c = "\\" THEN [tag |-> "continue", esc |-> FALSE, s |-> Append(str, "\\")]
         ELSE IF c = "\"" THEN [tag |-> "continue", esc |-> FALSE, s |-> Append(str, "\"")]
         ELSE [tag |-> "break",
               r |-> Err(format("Invalid escape sequence \\{}", <<c>>))]
  ELSE IF c = "\"" THEN [tag |-> "break", r |-> Ok(String(str))]
  ELSE IF c = "\\" THEN [tag |-> "continue", esc |-> TRUE, s |-> str]
  ELSE [tag |-> "continue", esc |-> FALSE, s |-> Append(str, c)]

\* read_str's result when the fold ran out of characters
unterminated == Err(String_from("Unterminated string"))

(***************************************************************************)
(* The queries parsed.  A query is the parts it is written from, so that a *)
(* property can speak of the entity name or the payload entries of the     *)
(* text; input is the text itself.                                         *)
(***************************************************************************)
MaxNameLen == 2

MaxEntries == 2

MaxDigits == 2

MaxStrLen == 2

Texts(n, alphabet) == UNION { [1..k -> alphabet] : k \in 0..n }

RECURSIVE Concat(_)
Concat(parts) == IF parts = << >> THEN << >> ELSE Head(parts) \o Concat(Tail(parts))

\* the query texts of the tests of the source, and a string holding every
\* escape
test_empty_wql == << >>

test_create_shit ==
  << "C","R","E","A","T","E"," ","S","H","I","T"," ","o","h","_","y","e","a",
     "h" >>

test_create_mispelled ==
  << "K","R","E","A","T","E"," ","E","N","T","I","T","Y"," ","m","i","s","p",
     "e","l","l","e","d" >>

test_create_entity ==
  << "C","R","E","A","T","E"," ","E","N","T","I","T","Y"," ","e","n","t","i",
     "t","y" >>

test_insert_entity ==
  << "I","N","S","E","R","T"," ","{","\n"," "," "," "," "," "," "," "," "," ",
     " "," "," ","a",":"," ","1","2","3",",","\n"," "," "," "," "," "," "," ",
     " "," "," "," "," ","b",":"," ","1","2",".","3",",","\n"," "," "," "," ",
     " "," "," "," "," "," "," "," ","c",":"," ","'","d","'"," ",",","\n"," ",
     " "," "," "," "," "," "," "," "," "," "," ","d",":"," ","t","r","u","e",
     " ",",","\n"," "," "," "," "," "," "," "," "," "," "," "," ","e",":"," ",
     "f","a","l","s","e",",","\n"," "," "," "," "," "," "," "," "," "," "," ",
     " ","f",":"," ","\"","h","e","l","l","o","\"",",","\n"," "," "," "," ",
     " "," "," "," "," "," "," "," ","g",":"," ","N","i","L","\n"," "," "," ",
     " "," "," "," "," ","}"," ","I","N","T","O"," ","m","y","_","e","n","t",
     "i","t","y" >>

test_insert_missing_into ==
  << "I","N","S","E","R","T"," ","{","\n"," "," "," "," "," "," "," "," "," ",
     " "," "," ","a",":"," ","1","2","3",",","\n"," "," "," "," "," "," "," ",
     " ","}"," ","I","N","T","R","O"," ","m","y","_","e","n","t","i","t",
     "y" >>

test_insert_missing_entity_name ==
  << "I","N","S","E","R","T"," ","{","\n"," "," "," "," "," "," "," "," "," ",
     " "," "," ","a",":"," ","1","2","3",",","\n"," "," "," "," "," "," "," ",
     " ","}"," ","I","N","T","O"," " >>

all_escapes_query ==
  << "I","N","S","E","R","T"," ","{","f",":"," ","\"","\\","t","\\","r","\\",
     "n","\\","\\","\\","\"","\"","}"," ","I","N","T","O"," ","s" >>

RawTexts ==
  { test_empty_wql, test_create_shit, test_create_mispelled, test_create_entity,
    test_insert_entity, test_insert_missing_into,
    test_insert_missing_entity_name, all_escapes_query,
    << " ","\n","\t" >>, << " " >>, << "D","R","O","P"," ","x" >>,
    << "C","R","E","A","T","E" >>, << "I","N","S","E","R","T" >>,
    << " ","\n","c","r","e","a","t","e"," ","E","n","t","i","t","y","\n","_","9" >>,
    << "\t","i","n","s","e","r","t"," ","{","}","i","n","t","o"," ","x" >>,
    << "I","N","S","E","R","T"," ","{","-","a",":"," ","1"," ","}"," ","I","N","T","O"," ","x" >>,
    << "I","N","S","E","R","T"," ","{",":"," ","1"," ","}"," ","I","N","T","O"," ","x" >> }

RawQueries == [fam : {"raw"}, text : RawTexts]

Names == Texts(MaxNameLen, {"a", "9", "_"})

\* <kw><sep1><kw2><sep2><name><tail>
CreateQueries ==
  [fam : {"create"},
   kw : 
     { << "C","R","E","A","T","E" >>, << "c","r","e","a","t","e" >>, << "c","R","e","A","t","E" >> } \cup
     { << "K","R","E","A","T","E" >>, << "I","N","S","E","R","T" >> },
   sep1 : { << " " >>, << "\t" >>, << " "," " >>, << " ","\n","\t" >> },
   kw2 : 
     { << "E","N","T","I","T","Y" >>, << "e","n","t","i","t","y" >> } \cup
     { << "S","H","I","T" >>, << >> },
   sep2 : { << " " >>, << " "," " >>, << "\n"," ","\t" >> },
   name : Names,
   tail : { << >>, << " ","x" >>, << " ","y","\n","z" >> }]

\* a payload entry <key><sep><text><after> and the value the text denotes
Entry(k, sp, tx, af, ex) ==
  [key |-> k, sep |-> sp, text |-> tx, after |-> af, expect |-> ex]

Whole(neg, mag) == Integer([neg |-> neg, mag |-> mag])

Decimal(neg, sig, exp) ==
  Float([kind |-> "num", neg |-> neg, sig |-> sig, exp |-> exp])

Entries ==
  { Entry(<< "a" >>, << ":"," " >>, << "1","2","3" >>, << "," >>, Some(Whole(FALSE, <<1,2,3>>))),
    Entry(<< "b" >>, << ":"," " >>, << "1","2",".","3" >>, << "," >>, Some(Decimal(FALSE, <<1,2,3>>, 0 - 1))),
    Entry(<< "c" >>, << ":"," " >>, << "'","d","'" >>, << " ","," >>, Some(Char("d"))),
    Entry(<< "d" >>, << ":"," " >>, << "t","r","u","e" >>, << "\n" >>, Some(Boolean(TRUE))),
    Entry(<< "e" >>, << ":"," " >>, << "f","a","l","s","e" >>, << "," >>, Some(Boolean(FALSE))),
    Entry(<< "f" >>, << ":"," " >>, << "\"","h","e","l","l","o","\"" >>, << >>, Some(String(<< "h","e","l","l","o" >>))),
    Entry(<< "g" >>, << ":"," " >>, << "N","i","L" >>, << "\n" >>, Some(Nil)),
    Entry(<< "a" >>, << ":" >>, << "-","0","7" >>, << "," >>, Some(Whole(TRUE, <<7>>))),
    Entry(<< "h","_","1" >>, << ":"," " >>, << "x","y","z" >>, << "," >>, None) }

EntrySeqs == UNION { [1..k -> Entries] : k \in 0..MaxEntries }

\* <head><entries><foot><name><tail>
InsertQueries ==
  [fam : {"insert"},
   head : { << "I","N","S","E","R","T"," ","{" >> },
   entries : EntrySeqs,
   foot : { << "}"," ","I","N","T","O"," " >>, << "}","\n"," ","i","n","t","o"," " >> },
   name : { << "m","y","_","e","n","t","i","t","y" >> },
   tail : { << >> }]

\* <head><body><close><gap><into><sep><name><tail>
FrameQueries ==
  [fam : {"frame"},
   head : { << "I","n","S","e","R","t"," ","{" >> },
   body : { << >>, << " ",",","\n",","," " >>, << "a",":"," ","1",","," " >> },
   close : { << "}" >> },
   gap : { << " " >>, << >> },
   into : 
     { << "I","N","T","O" >>, << "i","n","t","o" >> } \cup
     { << "I","N","T","R","O" >>, << >> },
   sep : { << " " >>, << " "," " >> },
   name : Names,
   tail : { << >>, << "-","y" >>, << "-","z"," ","w" >> }]

BrokenQueries ==
  [fam : {"frame"},
   head : 
     { << "I","N","S","E","R","T"," ","{" >>, << "I","N","S","E","R","T"," ","[" >> } \cup
     { << "I","N","S","E","R","T"," "," ","{" >>, << "I","N","S","E","R","T","{" >>, << "I","N","S","E","R","T"," " >> },
   body : { << "a",":"," ","?",","," " >>, << "a",":"," ","1",","," " >> },
   close : { << "}" >>, << >> },
   gap : { << " " >> },
   into : { << "I","N","T","O" >>, << "I","N","T","R","O" >> },
   sep : { << " " >> },
   name : { << "x" >> },
   tail : { << >> }]

\* a piece of a string literal as written (raw) and the text it denotes
\* (out); an escape the reader does not know denotes none
Piece(raw, out, valid) == [raw |-> raw, out |-> out, valid |-> valid]

Pieces ==
  { Piece(<< "n" >>, << "n" >>, TRUE),
    Piece(<< "," >>, << "," >>, TRUE),
    Piece(<< "}" >>, << "}" >>, TRUE),
    Piece(<< "\\","t" >>, <<"\t">>, TRUE),
    Piece(<< "\\","r" >>, <<"\r">>, TRUE),
    Piece(<< "\\","n" >>, <<"\n">>, TRUE),
    Piece(<< "\\","\\" >>, <<"\\">>, TRUE),
    Piece(<< "\\","\"" >>, <<"\"">>, TRUE),
    Piece(<< "\\","q" >>, << >>, FALSE) }

PieceSeqs == UNION { [1..k -> Pieces] : k \in 0..MaxStrLen }

StringHead == << "I","N","S","E","R","T"," ","{","f",":"," ","\"" >>

StringRest == << "}"," ","I","N","T","O"," ","s" >>

\* <StringHead><pieces><closer>, and StringRest after a closing quote
StringQueries ==
  [fam : {"string"},
   pieces : PieceSeqs,
   closer : { << "\"" >>, << >>, << "\\" >> }]

\* unquoted value tokens, each with the conversions of parse_value that
\* accept its text and the value the first of them in the chain gives
ValueTokens ==
  { [text |-> << "1","2","3" >>,
     accepts |-> {"Integer", "Float"}, expect |-> Some(Integer([neg |-> FALSE, mag |-> << 1,2,3 >>]))],
    [text |-> << "+","5" >>,
     accepts |-> {"Integer", "Float"}, expect |-> Some(Integer([neg |-> FALSE, mag |-> << 5 >>]))],
    [text |-> << "-","0","7" >>,
     accepts |-> {"Integer", "Float"}, expect |-> Some(Integer([neg |-> TRUE, mag |-> << 7 >>]))],
    [text |-> << "0","0","0","0","0","0","0","0","0","0","0","0","0","0","0","0","0","0","0","0","0","0","0","0","0","0","0","0","0","0","0","1" >>,
     accepts |-> {"Integer", "Float", "Uuid"}, expect |-> Some(Integer([neg |-> FALSE, mag |-> << 1 >>]))],
    [text |-> << "1","e","0","0","0","0","0","0","0","0","0","0","0","0","0","0","0","0","0","0","0","0","0","0","0","0","0","0","0","0","0","0" >>,
     accepts |-> {"Float", "Uuid"}, expect |-> Some(Float([kind |-> "num", neg |-> FALSE, sig |-> << 1 >>, exp |-> 0]))],
    [text |-> << "1","2","3","4","5","6","7","8","9","0","1","2","3","4","5","6","7","8","9","0","1","2","3","4","5","6","7","8","9","0","1","2" >>,
     accepts |-> {"Float", "Uuid"}, expect |-> Some(Float([kind |-> "num", neg |-> FALSE, sig |-> << 1,2,3,4,5,6,7,8,9,0,1,2,3,4,5,6,7,8,9,0,1,2,3,4,5,6,7,8,9,0,1,2 >>, exp |-> 0]))],
    [text |-> << "1","e","5" >>,
     accepts |-> {"Float"}, expect |-> Some(Float([kind |-> "num", neg |-> FALSE, sig |-> << 1 >>, exp |-> 5]))],
    [text |-> << "-","1",".","5","0" >>,
     accepts |-> {"Float"}, expect |-> Some(Float([kind |-> "num", neg |-> TRUE, sig |-> << 1,5 >>, exp |-> 0 - 1]))],
    [text |-> << ".","5" >>,
     accepts |-> {"Float"}, expect |-> Some(Float([kind |-> "num", neg |-> FALSE, sig |-> << 5 >>, exp |-> 0 - 1]))],
    [text |-> << "N","a","N" >>,
     accepts |-> {"Float"}, expect |-> Some(Float([kind |-> "nan"]))],
    [text |-> << "-","i","n","f" >>,
     accepts |-> {"Float"}, expect |-> Some(Float([kind |-> "inf", neg |-> TRUE]))],
    [text |-> << "2","d","f","2","b","8","c","f","-","4","9","d","a","-","4","7","4","d","-","8","a","0","0","-","c","5","9","6","c","0","b","b","6","f","d","1" >>,
     accepts |-> {"Uuid"}, expect |-> Some(Uuid(<< "2","d","f","2","b","8","c","f","4","9","d","a","4","7","4","d","8","a","0","0","c","5","9","6","c","0","b","b","6","f","d","1" >>))],
    [text |-> << "A","B","C","D","E","F","0","0","0","0","0","0","0","0","0","0","0","0","0","0","0","0","0","0","0","0","0","0","0","0","0","0" >>,
     accepts |-> {"Uuid"}, expect |-> Some(Uuid(<< "a","b","c","d","e","f","0","0","0","0","0","0","0","0","0","0","0","0","0","0","0","0","0","0","0","0","0","0","0","0","0","0" >>))],
    [text |-> << "t","r","u","e" >>,
     accepts |-> {"Boolean"}, expect |-> Some(Boolean(TRUE))],
    [text |-> << "f","a","l","s","e" >>,
     accepts |-> {"Boolean"}, expect |-> Some(Boolean(FALSE))],
    [text |-> << "n","i","l" >>,
     accepts |-> {"Nil"}, expect |-> Some(Nil)],
    [text |-> << "N","i","L" >>,
     accepts |-> {"Nil"}, expect |-> Some(Nil)],
    [text |-> << "'","x","'" >>,
     accepts |-> {"Char"}, expect |-> Some(Char("x"))],
    [text |-> << "'","'","'" >>,
     accepts |-> {"Char"}, expect |-> Some(Char("'"))],
    [text |-> << "x","y","z" >>,
     accepts |-> {}, expect |-> None],
    [text |-> << "T","R","U","E" >>,
     accepts |-> {}, expect |-> None],
    [text |-> << "'","'" >>,
     accepts |-> {}, expect |-> None],
    [text |-> << "-" >>,
     accepts |-> {}, expect |-> None],
    [text |-> << "'","a","b","'" >>,
     accepts |-> {}, expect |-> None],
    [text |-> << "1",".","2",".","3" >>,
     accepts |-> {}, expect |-> None],
    [text |-> << "e","5" >>,
     accepts |-> {}, expect |-> None],
    [text |-> << "0","x","1","0" >>,
     accepts |-> {}, expect |-> None] }

ValueHead == << "I","N","S","E","R","T"," ","{","v",":"," " >>

ValueRest == << " ","}"," ","I","N","T","O"," ","t" >>

\* INSERT {v: <token> } INTO t
ValueQueries == [fam : {"value"}, tok : ValueTokens]

\* base-10 integer literals: short ones, and ones around the ends of isize
LiteralDigits ==
  (Texts(MaxDigits, {"0", "7"}) \ { << >> }) \cup
  { << "9","2","2","3","3","7","2","0","3","6","8","5","4","7","7","5","8","0","7" >>,
    << "9","2","2","3","3","7","2","0","3","6","8","5","4","7","7","5","8","0","8" >>,
    << "9","2","2","3","3","7","2","0","3","6","8","5","4","7","7","5","8","0","9" >>,
    << "0","0","0","9","2","2","3","3","7","2","0","3","6","8","5","4","7","7","5","8","0","7" >>,
    << "1","0","0","0","0","0","0","0","0","0","0","0","0","0","0","0","0","0","0","0" >> }

\* INSERT {v: <-?digits> } INTO t
IntegerQueries == [fam : {"integer"}, neg : BOOLEAN, digits : LiteralDigits]

\* an entry of a payload, <key>: <text><after>, with the value the text
\* denotes and the separators that follow the entry, none included
PayloadItems ==
  { [key |-> k, text |-> t.text, expect |-> t.expect, after |-> t.after] :
      k \in { <<"a">>, <<"b">> },
      t \in { [text |-> <<"1">>, expect |-> Integer([neg |-> FALSE, mag |-> <<1>>]),
               after |-> << >>],
              [text |-> <<"1">>, expect |-> Integer([neg |-> FALSE, mag |-> <<1>>]),
               after |-> <<" ">>],
              [text |-> <<"2">>, expect |-> Integer([neg |-> FALSE, mag |-> <<2>>]),
               after |-> <<",">>],
              [text |-> <<"\"","s","\"">>, expect |-> String(<<"s">>),
               after |-> << >>],
              [text |-> <<"\"","t","\"">>, expect |-> String(<<"t">>),
               after |-> <<" ",",","\n">>] } }

PayloadSeqs == UNION { [1..n -> PayloadItems] : n \in 0..MaxEntries }

PayloadHead == << "I","N","S","E","R","T"," ","{" >>

PayloadFoot == << "}"," ","I","N","T","O"," ","p" >>

\* INSERT {<lead><entry>*} INTO p
PayloadQueries ==
  [fam : {"payload"}, lead : { << >>, <<","," ">> }, items : PayloadSeqs]

ItemText(e) == e.key \o <<":"," ">> \o e.text \o e.after

\* the entries completed before a key is left pending
CompletedSeqs ==
  LET a1 == [key |-> <<"a">>, text |-> <<"1">>,
             expect |-> Integer([neg |-> FALSE, mag |-> <<1>>]),
             after |-> <<","," ">>]
      bs == [key |-> <<"b">>, text |-> <<"\"","s","\"">>,
             expect |-> String(<<"s">>), after |-> <<" ">>]
  IN { << >>, <<a1>>, <<a1, bs>> }

\* a key and what follows it up to the closing brace, no value among it
PendingKeys ==
  { [key |-> <<"b">>, text |-> <<"b"," ">>],
    [key |-> <<"b">>, text |-> <<"b",":"," ">>],
    [key |-> <<"a">>, text |-> <<"a","\n">>],
    [key |-> <<"c","_","9">>, text |-> <<"c","_","9",":",",","\t">>] }

\* INSERT {<entry>*<key>} INTO p
PendingQueries == [fam : {"pending"}, items : CompletedSeqs, open : PendingKeys]

\* what is left of a payload whose input ends before its closing brace
UnclosedBodies ==
  { << >>, <<" ">>, <<","," ","\n">>, <<"b">>, <<"b",":"," ">>,
    <<"a",":"," ","1">>, <<"a",":"," ","1",","," ">>,
    <<"a",":"," ","\"","s","\"">>, <<"a",":"," ","1"," ","b",":"," ","n","i","l">> }

\* INSERT {<body>
UnclosedQueries == [fam : {"unclosed"}, body : UnclosedBodies]

Queries ==
  RawQueries \cup CreateQueries \cup InsertQueries \cup FrameQueries
    \cup BrokenQueries \cup StringQueries \cup ValueQueries
    \cup IntegerQueries \cup PayloadQueries \cup PendingQueries
    \cup UnclosedQueries

EntryText(e) == e.key \o e.sep \o e.text \o e.after

PayloadText(es) == Concat([i \in 1..Len(es) |-> EntryText(es[i])])

LiteralText(ps) == Concat([i \in 1..Len(ps) |-> ps[i].raw])

Render(q) ==
  CASE q.fam = "raw" -> q.text
    [] q.fam = "create" ->
         q.kw \o q.sep1 \o q.kw2 \o q.sep2 \o q.name \o q.tail
    [] q.fam = "insert" ->
         q.head \o PayloadText(q.entries) \o q.foot \o q.name \o q.tail
    [] q.fam = "frame" ->
         q.head \o q.body \o q.close \o q.gap \o q.into \o q.sep \o q.name
           \o q.tail
    [] q.fam = "string" ->
         StringHead \o LiteralText(q.pieces) \o q.closer
           \o (IF q.closer = <<"\"">> THEN StringRest ELSE << >>)
    [] q.fam = "value" -> ValueHead \o q.tok.text \o ValueRest
    [] q.fam = "integer" ->
         ValueHead \o (IF q.neg THEN <<"-">> ELSE << >>) \o q.digits
           \o ValueRest
    [] q.fam = "payload" ->
         PayloadHead \o q.lead
           \o Concat([i \in 1..Len(q.items) |-> ItemText(q.items[i])])
           \o PayloadFoot
    [] q.fam = "pending" ->
         PayloadHead
           \o Concat([i \in 1..Len(q.items) |-> ItemText(q.items[i])])
           \o q.open.text \o PayloadFoot
    [] q.fam = "unclosed" -> PayloadHead \o q.body

(***************************************************************************)
(* The state machine.                                                      *)
(***************************************************************************)
Init ==
  /\ query \in Queries
  /\ input = Render(query)
  /\ pos = 0
  /\ pc = "from_str"
  /\ a = None
  /\ key = None
  /\ res = EmptyMap
  /\ last_was_escape = FALSE
  /\ s = << >>
  /\ ret = None
  /\ result = None

\* Wql::from_str and parse: trim, take the first character, dispatch
from_str ==
  /\ pc = "from_str"
  /\ IF trim_start = Len(input)
       THEN /\ result' = Some(Err(String_from("Empty WQL")))
            /\ pos' = trim_start
            /\ pc' = "done"
            /\ a' = None
       ELSE /\ a' = Some(input[trim_start + 1])
            /\ pos' = trim_start + 1
            /\ pc' = "read_symbol"
            /\ result' = result
  /\ UNCHANGED <<query, input, key, res, last_was_escape, s, ret>>

read_symbol ==
  /\ pc = "read_symbol"
  /\ LET m == match_symbol(a.v, pos)
     IN /\ pc' = m.next
        /\ pos' = m.pos
        /\ result' = IF m.next = "done" THEN Some(m.r) ELSE result
  /\ UNCHANGED <<query, input, a, key, res, last_was_escape, s, ret>>

create_entity ==
  /\ pc = "create_entity"
  /\ LET c == parse_create_entity(pos)
     IN /\ result' = Some(c.r)
        /\ pos' = c.pos
        /\ pc' = "done"
  /\ UNCHANGED <<query, input, a, key, res, last_was_escape, s, ret>>

\* a slip of read_map: whitespace before the opening brace is skipped
insert_skips_whitespace ==
  /\ pc = "insert"
  /\ LET from == skip_while(while_whitespace, pos)
     IN IF from < Len(input) /\ input[from + 1] = "{"
          THEN /\ pos' = from + 1
               /\ pc' = "read_map"
               /\ res' = EmptyMap
               /\ key' = None
               /\ result' = result
          ELSE /\ pos' = IF from < Len(input) THEN from + 1 ELSE from
               /\ pc' = "done"
               /\ result' = Some(Err(String_from(
                    "Entity map should start with '{' and end with '}'")))
               /\ UNCHANGED <<res, key>>
  /\ UNCHANGED <<query, input, a, last_was_escape, s, ret>>

\* insert calls read_map, which takes the opening brace and enters its loop
insert ==
  /\ pc = "insert"
  /\ IF pos < Len(input) /\ input[pos + 1] = "{"
       THEN /\ pos' = pos + 1
            /\ pc' = "read_map"
            /\ res' = EmptyMap
            /\ key' = None
            /\ result' = result
       ELSE /\ pos' = IF pos < Len(input) THEN pos + 1 ELSE pos
            /\ pc' = "done"
            /\ result' = Some(Err(String_from(
                 "Entity map should start with '{' and end with '}'")))
            /\ UNCHANGED <<res, key>>
  /\ UNCHANGED <<query, input, a, last_was_escape, s, ret>>

\* one iteration of read_map's loop
read_map ==
  /\ pc = "read_map"
  /\ IF pos = Len(input)
       THEN /\ result' = Some(Err(String_from("Entity HashMap could not be created")))
            /\ pc' = "done"
            /\ UNCHANGED <<pos, key, res, last_was_escape, s>>
       ELSE LET c   == input[pos + 1]
                arm == map_arm(c, key.some)
                pv  == parse_value(c, pos + 1)
                pk  == parse_key(c, pos + 1)
            IN CASE arm = "return" ->
                      /\ pc' = "insert_into"
                      /\ pos' = pos + 1
                      /\ UNCHANGED <<key, res, last_was_escape, s, result>>
                 [] arm = "value" /\ c = "\"" ->
                      /\ pc' = "read_str"
                      /\ pos' = pos + 1
                      /\ last_was_escape' = FALSE
                      /\ s' = << >>
                      /\ UNCHANGED <<key, res, result>>
                 [] arm = "value" /\ c # "\"" /\ pv.r.ok ->
                      /\ res' = map_insert(res, key.v, pv.r.v)
                      /\ key' = None
                      /\ pos' = pv.pos
                      /\ UNCHANGED <<pc, last_was_escape, s, result>>
                 [] arm = "value" /\ c # "\"" /\ ~pv.r.ok ->
                      /\ result' = Some(pv.r)
                      /\ pc' = "done"
                      /\ pos' = pv.pos
                      /\ UNCHANGED <<key, res, last_was_escape, s>>
                 [] arm = "key" ->
                      /\ key' = Some(pk.r)
                      /\ pos' = pk.pos
                      /\ UNCHANGED <<pc, res, last_was_escape, s, result>>
                 [] arm = "skip" ->
                      /\ pos' = pos + 1
                      /\ UNCHANGED <<pc, key, res, last_was_escape, s, result>>
  /\ UNCHANGED <<query, input, a, ret>>

\* one step of read_str's try_fold; when the fold ends, read_str returns
\* through parse_value to read_map, which stores the entry
read_str ==
  /\ pc = "read_str"
  /\ IF pos = Len(input)
       THEN /\ ret' = Some(unterminated)
            /\ result' = Some(unterminated)
            /\ pc' = "done"
            /\ UNCHANGED <<pos, key, res, last_was_escape, s>>
       ELSE LET f == fold_str(last_was_escape, s, input[pos + 1])
            IN /\ pos' = pos + 1
               /\ CASE f.tag = "continue" ->
                         /\ last_was_escape' = f.esc
                         /\ s' = f.s
                         /\ UNCHANGED <<pc, key, res, ret, result>>
                    [] f.tag = "break" /\ f.r.ok ->
                         /\ ret' = Some(f.r)
                         /\ res' = map_insert(res, key.v, f.r.v)
                         /\ key' = None
                         /\ pc' = "read_map"
                         /\ UNCHANGED <<last_was_escape, s, result>>
                    [] f.tag = "break" /\ ~f.r.ok ->
                         /\ ret' = Some(f.r)
                         /\ result' = Some(f.r)
                         /\ pc' = "done"
                         /\ UNCHANGED <<key, res, last_was_escape, s>>
  /\ UNCHANGED <<query, input, a>>

\* the rest of insert: the INTO keyword and the entity name
insert_into ==
  /\ pc = "insert_into"
  /\ LET i == parse_into(res, pos)
     IN /\ result' = Some(i.r)
        /\ pos' = i.pos
        /\ pc' = "done"
  /\ UNCHANGED <<query, input, a, key, res, last_was_escape, s, ret>>

Next ==
  \/ from_str
  \/ read_symbol
  \/ create_entity
  \/ insert
  \/ read_map
  \/ read_str
  \/ insert_into

Spec == Init /\ [][Next]_vars

\* the shorter queries of the families, every step of the parser among them
FairQueries ==
  { q \in CreateQueries : q.name = <<"a">> /\ q.tail = << >> }
    \cup UnclosedQueries
    \cup { q \in StringQueries : Len(q.pieces) <= 1 }
    \cup { q \in PendingQueries : q.items = << >> }
    \cup { q \in RawQueries : Len(q.text) <= 20 }
    \cup { q \in FrameQueries :
             q.body = << >> /\ q.name = <<"a">> /\ q.tail = << >> }

FairInit == Init /\ query \in FairQueries

\* from_str is one sequential call: while a step of the parser is possible
\* the call goes on to take it
FairSpec == FairInit /\ [][Next]_vars /\ WF_vars(Next)

(***************************************************************************)
(* What the properties below read off the query text and its parts; none   *)
(* of it uses the parser's own operators.                                  *)
(***************************************************************************)
Blank == {" ", "\t", "\n", "\r"}

RECURSIVE SkipBlank(_, _)
SkipBlank(txt, i) ==
  IF i > Len(txt) \/ txt[i] \notin Blank THEN i ELSE SkipBlank(txt, i + 1)

RECURSIVE WordAt(_, _)
WordAt(txt, i) ==
  IF i > Len(txt) \/ txt[i] \in Blank THEN << >>
  ELSE <<txt[i]>> \o WordAt(txt, i + 1)

\* the first and the second whitespace-delimited token of the text
FirstWord == WordAt(input, SkipBlank(input, 1))

SecondWord ==
  WordAt(input, SkipBlank(input, SkipBlank(input, 1) + Len(FirstWord)))

\* equality of two words ignoring letter case
SameWord(x, w) ==
  /\ Len(x) = Len(w)
  /\ \A i \in 1..Len(x) :
       \/ x[i] = w[i]
       \/ \E j \in 1..26 : {x[i], w[i]} = {LowerLetters[j], UpperLetters[j]}

CREATE == <<"C">> \o REATE

INSERT == <<"I">> \o NSERT

NameChars == Range(LowerLetters) \cup Range(UpperLetters) \cup Range(Digits) \cup {"_"}

Failed(text) == Some(Err([text |-> text, args |-> << >>]))

Returned(cmd) == Some(Ok(cmd))

OneBlank(sep) == Len(sep) = 1 /\ sep[1] \in Blank

\* C1 ---------------------------------------------------------------------
WellFormed(es) ==
  /\ \A i \in 1..Len(es) : es[i].expect.some
  /\ \A i, j \in 1..Len(es) : es[i].key = es[j].key => i = j

ExpectedEntity(es) ==
  [k \in { es[i].key : i \in 1..Len(es) } |->
     (es[CHOOSE i \in 1..Len(es) : es[i].key = k]).expect.v]

\* the entity the test insert_entity expects
hashmap ==
  [k \in { <<"a">>, <<"b">>, <<"c">>, <<"d">>, <<"e">>, <<"f">>, <<"g">> } |->
     CASE k = <<"a">> -> Whole(FALSE, <<1,2,3>>)
       [] k = <<"b">> -> Decimal(FALSE, <<1,2,3>>, 0 - 1)
       [] k = <<"c">> -> Char("d")
       [] k = <<"d">> -> Boolean(TRUE)
       [] k = <<"e">> -> Boolean(FALSE)
       [] k = <<"f">> -> String(<<"h","e","l","l","o">>)
       [] k = <<"g">> -> Nil]

\* C1: an INSERT whose payload entries are key: value pairs with distinct
\* identifier keys, each value a double-quoted string or an unquoted token
\* followed by whitespace or a comma, and which goes on with INTO and a name,
\* returns Insert(name, M), M holding exactly the keys written, each mapped to
\* the value its token denotes; the query of the test insert_entity returns
\* the entity the test expects.
C1_InsertReturnsEntity ==
  /\ (pc = "done" /\ query.fam = "insert" /\ WellFormed(query.entries))
       => result = Returned(Insert(query.name, ExpectedEntity(query.entries)))
  /\ (pc = "done" /\ input = test_insert_entity)
       => result = Returned(Insert(<<"m","y","_","e","n","t","i","t","y">>, hashmap))

C1_Witness ==
  /\ pc = "done"
  /\ query.fam = "insert"
  /\ WellFormed(query.entries)
  /\ Len(query.entries) = 2
  /\ query.entries[1].expect.v.type = "String"
  /\ query.entries[2].expect.v.type = "Float"
  /\ result.v.ok

\* C2 ---------------------------------------------------------------------
\* C2: CREATE ENTITY <name>, the keywords in any letter case and one
\* whitespace character after each, with a non-empty alphanumeric/underscore
\* name, returns CreateEntity(name) with exactly that name.
C2_CreateEntityReturnsName ==
  /\ ( /\ pc = "done"
       /\ query.fam = "create"
       /\ SameWord(query.kw, CREATE) /\ OneBlank(query.sep1)
       /\ SameWord(query.kw2, ENTITY) /\ OneBlank(query.sep2)
       /\ query.name # << >> )
       => result = Returned(CreateEntity(query.name))
  /\ (pc = "done" /\ input = test_create_entity)
       => result = Returned(CreateEntity(<<"e","n","t","i","t","y">>))

C2_Witness ==
  /\ pc = "done"
  /\ query.fam = "create"
  /\ query.kw = CREATE /\ query.sep1 = <<" ">>
  /\ query.kw2 = ENTITY /\ query.sep2 = <<" ">>
  /\ query.name = <<"_", "9">>
  /\ query.tail # << >>
  /\ result = Returned(CreateEntity(<<"_", "9">>))

\* C3 ---------------------------------------------------------------------
InCreateEntity ==
  \/ pc = "create_entity"
  \/ /\ pc = "done"
     /\ \/ result.v.ok /\ result.v.v.cmd = "CreateEntity"
        \/ result = Failed("Keyword ENTITY is required for CREATE")

InInsert ==
  \/ pc \in {"insert", "read_map", "read_str", "insert_into"}
  \/ /\ pc = "done"
     /\ \/ result.v.ok /\ result.v.v.cmd = "Insert"
        \/ /\ ~result.v.ok
           /\ result.v.e.text \in
                { "Entity map should start with '{' and end with '}'",
                  "Entity HashMap could not be created",
                  "Value Type could not be created from {}",
                  "Invalid escape sequence \\{}",
                  "Unterminated string",
                  "Keyword INTO is required for INSERT",
                  "Entity name is required after INTO" }

\* C3: once the dispatcher has read the first whitespace-delimited token T of
\* the trimmed input, the parse is in the create-entity parser if T is CREATE
\* ignoring letter case, in the insert parser if T is INSERT ignoring letter
\* case, and has otherwise failed with the symbol-not-implemented error that
\* holds T as written.
C3_DispatchOnFirstToken ==
  (pc \notin {"from_str", "read_symbol"} /\ FirstWord # << >>) =>
    IF SameWord(FirstWord, CREATE) THEN InCreateEntity
    ELSE IF SameWord(FirstWord, INSERT) THEN InInsert
    ELSE /\ pc = "done"
         /\ result = Some(Err([text |-> "Symbol '{}{}' not implemented",
                               args |-> FirstWord]))

C3_Witness ==
  /\ pc = "done"
  /\ input = test_create_mispelled
  /\ result = Some(Err([text |-> "Symbol '{}{}' not implemented",
                        args |-> <<"K","R","E","A","T","E">>]))

\* C4 ---------------------------------------------------------------------
AllBlank == \A i \in 1..Len(input) : input[i] \in Blank

\* C4: an input that is empty, or holds whitespace only, fails with Empty WQL
\* in the first step and never returns a command.
C4_EmptyWql ==
  AllBlank =>
    /\ pc \in {"from_str", "done"}
    /\ pc = "done" => result = Failed("Empty WQL")

C4_Witness ==
  /\ pc = "done"
  /\ input = <<" ", "\n", "\t">>
  /\ result = Failed("Empty WQL")

\* C5 ---------------------------------------------------------------------
\* C5: after a first token that is CREATE ignoring letter case, a next
\* whitespace-delimited token that is not ENTITY ignoring letter case, a
\* missing one included, makes the parse fail with the ENTITY-required error
\* whatever follows.
C5_EntityKeywordRequired ==
  ( /\ pc = "done"
    /\ SameWord(FirstWord, CREATE)
    /\ ~SameWord(SecondWord, ENTITY) )
    => result = Failed("Keyword ENTITY is required for CREATE")

C5_Witness ==
  /\ pc = "done"
  /\ input = test_create_shit
  /\ SecondWord = <<"S","H","I","T">>
  /\ result = Failed("Keyword ENTITY is required for CREATE")

\* C6 ---------------------------------------------------------------------
\* <keyword><one whitespace character>{
HeadOk(h) ==
  /\ Len(h) = 8
  /\ SameWord(SubSeq(h, 1, 6), INSERT)
  /\ h[7] \in Blank
  /\ h[8] = "{"

OnlySeparators(body) == \A i \in 1..Len(body) : body[i] \in Blank \cup {","}

\* the entity a frame query's payload body denotes, if it denotes one
BodyExpect(body) ==
  IF OnlySeparators(body) THEN Some(<< >>)
  ELSE IF body = <<"a", ":", " ", "1", ",", " ">>
    THEN Some([k \in {<<"a">>} |-> Whole(FALSE, <<1>>)])
  ELSE None

\* the payload of the query is a map the map parser accepts
MapParsed(q) ==
  \/ q.fam = "insert" /\ \A i \in 1..Len(q.entries) : q.entries[i].expect.some
  \/ q.fam = "frame" /\ HeadOk(q.head) /\ q.close = <<"}">> /\ BodyExpect(q.body).some

\* the index of the payload's closing brace
MapEnd(q) ==
  IF q.fam = "insert" THEN Len(q.head) + Len(PayloadText(q.entries)) + 1
  ELSE Len(q.head) + Len(q.body) + 1

\* the whitespace-delimited keyword after the payload, and where it starts
KeywordStart(q) == SkipBlank(input, MapEnd(q) + 1)

KeywordAfterMap(q) == WordAt(input, KeywordStart(q))

\* C6: when the payload map parsed and the next whitespace-delimited keyword
\* is not INTO ignoring letter case, the parse fails with the INTO-required
\* error; when the payload itself is in error the parse fails with another
\* error than that one, whatever the keyword.
C6_IntoKeywordRequired ==
  /\ ( /\ pc = "done"
       /\ query.fam \in {"insert", "frame"}
       /\ MapParsed(query)
       /\ ~SameWord(KeywordAfterMap(query), INTO) )
       => result = Failed("Keyword INTO is required for INSERT")
  /\ ( /\ pc = "done"
       /\ query.fam \in {"insert", "frame"}
       /\ SameWord(FirstWord, INSERT)
       /\ ~MapParsed(query) )
       => /\ ~result.v.ok
          /\ result # Failed("Keyword INTO is required for INSERT")
  /\ (pc = "done" /\ input = test_insert_missing_into)
       => result = Failed("Keyword INTO is required for INSERT")

C6_Witness ==
  /\ pc = "done"
  /\ query.fam = "frame"
  /\ MapParsed(query)
  /\ query.body # << >>
  /\ KeywordAfterMap(query) = <<"I","N","T","R","O">>
  /\ query.name # << >>
  /\ result = Failed("Keyword INTO is required for INSERT")

\* C7 ---------------------------------------------------------------------
\* the index of the first character of the entity name: the one after the
\* single character that ends the keyword
NameStart(q) == KeywordStart(q) + Len(KeywordAfterMap(q)) + 1

NameRunEmpty(q) ==
  NameStart(q) > Len(input) \/ input[NameStart(q)] \notin NameChars

\* C7: with a payload that parsed and the INTO keyword, an empty
\* alphanumeric/underscore run after INTO fails with the name-required
\* error; every Insert returned holds a non-empty name of alphanumeric and
\* underscore characters only.
C7_EntityNameRequired ==
  /\ ( /\ pc = "done"
       /\ query.fam \in {"insert", "frame"}
       /\ MapParsed(query)
       /\ SameWord(KeywordAfterMap(query), INTO)
       /\ NameRunEmpty(query) )
       => result = Failed("Entity name is required after INTO")
  /\ (pc = "done" /\ input = test_insert_missing_entity_name)
       => result = Failed("Entity name is required after INTO")
  /\ (result.some /\ result.v.ok /\ result.v.v.cmd = "Insert")
       => /\ result.v.v.name # << >>
          /\ \A i \in 1..Len(result.v.v.name) : result.v.v.name[i] \in NameChars

C7_Witness ==
  /\ pc = "done"
  /\ query.fam = "frame"
  /\ MapParsed(query)
  /\ SameWord(KeywordAfterMap(query), INTO)
  /\ query.name = << >>
  /\ query.tail # << >>
  /\ result = Failed("Entity name is required after INTO")

\* C8 ---------------------------------------------------------------------
\* C8: a payload with nothing, or only whitespace and commas, between its
\* braces parses to the empty mapping, and INSERT {} INTO <name> returns
\* Insert(name, empty map).
C8_EmptyMap ==
  /\ ( /\ query.fam = "frame"
       /\ HeadOk(query.head) /\ query.close = <<"}">>
       /\ OnlySeparators(query.body) )
       => /\ pc \notin {"from_str", "read_symbol", "insert"} => res = << >>
          /\ pos > MapEnd(query) => pc \in {"insert_into", "done"}
          /\ ( /\ pc = "done"
               /\ SameWord(query.into, INTO) /\ OneBlank(query.sep)
               /\ query.name # << >> )
               => result = Returned(Insert(query.name, << >>))

C8_Witness ==
  /\ pc = "done"
  /\ query.fam = "frame"
  /\ HeadOk(query.head) /\ query.close = <<"}">>
  /\ query.body = << >>
  /\ query.name = <<"a", "_">>
  /\ result = Returned(Insert(<<"a", "_">>, << >>))

\* C9 ---------------------------------------------------------------------
Decoded(ps) == Concat([i \in 1..Len(ps) |-> ps[i].out])

AllValid(ps) == \A i \in 1..Len(ps) : ps[i].valid

\* the index of the character after the literal's pieces
LiteralEnd(q) == Len(StringHead) + Len(LiteralText(q.pieces)) + 1

\* C9: for a string literal closed by an unescaped quote whose escapes are
\* all among \t \r \n \\ \", the string reader returns exactly when the
\* cursor has passed the closing quote, and returns String(s), s the
\* literal's content with each escape replaced by the character it stands
\* for and every other character copied in order.
C9_StringDecoded ==
  /\ ( /\ query.fam = "string"
       /\ query.closer = <<"\"">>
       /\ AllValid(query.pieces) )
       => /\ ret.some <=> pos >= LiteralEnd(query)
          /\ ret.some => ret.v = Ok(String(Decoded(query.pieces)))
          /\ (ret.some /\ pc = "read_map") => pos = LiteralEnd(query)
          /\ pc = "done" =>
               result = Returned(Insert(<<"s">>,
                          [k \in {<<"f">>} |-> String(Decoded(query.pieces))]))
  /\ (pc = "done" /\ input = all_escapes_query)
       => result = Returned(Insert(<<"s">>,
                     [k \in {<<"f">>} |-> String(<<"\t", "\r", "\n", "\\", "\"">>)]))

C9_Witness ==
  /\ pc = "read_map"
  /\ query.fam = "string"
  /\ query.closer = <<"\"">>
  /\ Len(query.pieces) = 2
  /\ query.pieces[1].raw = <<"\\", "\"">>
  /\ query.pieces[2].raw = <<"\\", "r">>
  /\ ret = Some(Ok(String(<<"\"", "\r">>)))
  /\ pos = LiteralEnd(query)

\* C10 --------------------------------------------------------------------
\* the text up to and including the first escape the reader does not know
UpToInvalid(ps) ==
  LET bad == { i \in 1..Len(ps) : ~ps[i].valid }
  IN SubSeq(ps, 1, CHOOSE i \in bad : \A j \in bad : i <= j)

\* C10: a backslash followed by a character other than t, r, n, backslash
\* and double quote fails with the invalid-escape error at that character;
\* input that ends before an unescaped quote, right after a backslash
\* included, fails with the unterminated-string error; either way the reader
\* stores nothing and the parse returns no command.
C10_StringErrors ==
  /\ (query.fam = "string" /\ ~AllValid(query.pieces))
       => /\ pos <= Len(StringHead) + Len(LiteralText(UpToInvalid(query.pieces)))
          /\ res = << >>
          /\ pc = "done" =>
               /\ result = Some(Err([text |-> "Invalid escape sequence \\{}",
                                     args |-> <<"q">>]))
               /\ ret = result
               /\ pos = Len(StringHead) + Len(LiteralText(UpToInvalid(query.pieces)))
  /\ (query.fam = "string" /\ AllValid(query.pieces) /\ query.closer # <<"\"">>)
       => /\ pc # "insert_into"
          /\ res = << >>
          /\ pc = "done" =>
               /\ result = Failed("Unterminated string")
               /\ ret = result
               /\ pos = Len(input)

C10_Witness ==
  /\ pc = "done"
  /\ query.fam = "string"
  /\ AllValid(query.pieces)
  /\ Len(query.pieces) = 2
  /\ query.closer = <<"\\">>
  /\ result = Failed("Unterminated string")

\* C11 --------------------------------------------------------------------
\* the maximal run of characters of the class from index i of the text on
RECURSIVE RunOf(_, _, _)
RunOf(txt, i, class) ==
  IF i > Len(txt) \/ txt[i] \notin class THEN << >>
  ELSE <<txt[i]>> \o RunOf(txt, i + 1, class)

NonBlank == Range(input) \ Blank

ValueChars == Range(input) \ (Blank \cup {","})

\* the cursor after a scan that started at cursor p and collected run: one
\* past the character that ended the run, or the end of the input
After(p, run) ==
  IF p + Len(run) < Len(input) THEN p + Len(run) + 1 ELSE Len(input)

\* what each step that scans does to the cursor and hands on as the run
ScanStep ==
  /\ pos' >= pos
  /\ pc = "read_symbol" =>
       LET run == RunOf(input, pos + 1, NonBlank)
       IN /\ pos' = After(pos, run)
          /\ pc' = "done" => result'.v.e.args = <<a.v>> \o run
  /\ (pc = "read_map" /\ ~key.some /\ key'.some) =>
       LET run == RunOf(input, pos + 2, NameChars)
       IN /\ key'.v = <<input[pos + 1]>> \o run
          /\ pos' = After(pos + 1, run)
  /\ ( /\ pc = "read_map" /\ key.some /\ pos < Len(input)
       /\ input[pos + 1] \notin Blank \cup {",", "}", "\""} ) =>
       LET run == RunOf(input, pos + 2, ValueChars)
       IN /\ pos' = After(pos + 1, run)
          /\ pc' = "done" => result'.v.e.args = <<input[pos + 1]>> \o run
  /\ pc = "create_entity" =>
       LET word == RunOf(input, pos + 1, NonBlank)
           name == RunOf(input, After(pos, word) + 1, NameChars)
       IN IF result'.v.ok
            THEN /\ result'.v.v.name = name
                 /\ pos' = After(After(pos, word), name)
            ELSE pos' = After(pos, word)
  /\ pc = "insert_into" =>
       LET from == SkipBlank(input, pos + 1) - 1
           word == RunOf(input, from + 1, NonBlank)
           name == RunOf(input, After(from, word) + 1, NameChars)
       IN IF SameWord(word, INTO)
            THEN /\ pos' = After(After(from, word), name)
                 /\ result'.v.ok => result'.v.v.name = name
            ELSE pos' = After(from, word)

\* C11: every take_while scan hands on the maximal run of characters that
\* satisfy its predicate and leaves the cursor one character past the first
\* character that fails it, that character in no run, or at the end of the
\* input when no character fails; the cursor never moves back.
C11_TakeWhileScans == [][ScanStep]_vars

C11_Witness ==
  /\ pc = "read_map"
  /\ key = Some(<<"h", "_", "1">>)
  /\ input[pos] = ":"
  /\ SubSeq(input, pos - 3, pos - 1) = <<"h", "_", "1">>
  /\ input[pos + 1] = " "

\* C12 --------------------------------------------------------------------
InferenceOrder == << "Integer", "Float", "Uuid", "Boolean", "Nil", "Char" >>

\* the interpretation that comes first in the order among those accepting
Earliest(accepts) ==
  InferenceOrder[CHOOSE i \in 1..Len(InferenceOrder) :
                   /\ InferenceOrder[i] \in accepts
                   /\ \A j \in 1..(i - 1) : InferenceOrder[j] \notin accepts]

\* C12: an unquoted token is given the earliest interpretation, in the order
\* integer, float, UUID, boolean, nil, character, that accepts its text, even
\* when later ones accept it too; a token none accepts is the error
\* "Value Type could not be created from <token>".
C12_InferenceOrder ==
  (query.fam = "value" /\ pc = "done") =>
    IF query.tok.accepts = {}
      THEN result = Some(Err(format("Value Type could not be created from {}",
                                    query.tok.text)))
      ELSE /\ result.some /\ result.v.ok
           /\ result.v.v.cmd = "Insert"
           /\ DOMAIN result.v.v.entity = { <<"v">> }
           /\ result.v.v.entity[<<"v">>] = query.tok.expect.v
           /\ result.v.v.entity[<<"v">>].type = Earliest(query.tok.accepts)

C12_Witness ==
  /\ query.fam = "value" /\ pc = "done"
  /\ query.tok.accepts = {"Float", "Uuid"}
  /\ result.v.ok
  /\ result.v.v.entity[<<"v">>].type = "Float"

\* C13 --------------------------------------------------------------------
\* the number a digit text denotes: its digits' values, leading zeros dropped
RECURSIVE Magnitude(_)
Magnitude(d) ==
  IF d = << >> THEN << >>
  ELSE IF d[1] = "0" THEN Magnitude(Tail(d))
  ELSE [i \in 1..Len(d) |->
          CHOOSE n \in 0..9 : <<"0","1","2","3","4","5","6","7","8","9">>[n + 1] = d[i]]

\* m <= n for two digit sequences of the same length
RECURSIVE LexLeq(_, _)
LexLeq(m, n) ==
  \/ m = << >>
  \/ m[1] < n[1]
  \/ m[1] = n[1] /\ LexLeq(Tail(m), Tail(n))

\* -9223372036854775808 <= the number <= 9223372036854775807
FitsIsize(neg, mag) ==
  \/ Len(mag) < 19
  \/ /\ Len(mag) = 19
     /\ LexLeq(mag, IF neg THEN << 9,2,2,3,3,7,2,0,3,6,8,5,4,7,7,5,8,0,8 >>
                           ELSE << 9,2,2,3,3,7,2,0,3,6,8,5,4,7,7,5,8,0,7 >>)

\* the value found for the literal of the query
LiteralValue == result.v.v.entity[<<"v">>]

LiteralNumber ==
  [neg |-> query.neg /\ Magnitude(query.digits) # << >>,
   mag |-> Magnitude(query.digits)]

\* C13 as stated: every token made of an optional leading - and one or more
\* decimal digits is inferred as Integer holding that number, never as Float
\* and never as an error.
C13_EveryLiteralIsInteger ==
  (query.fam = "integer" /\ pc = "done") =>
    /\ result.some /\ result.v.ok
    /\ LiteralValue = Integer(LiteralNumber)

\* C13, amended: such a token is inferred as Integer holding that number when
\* the number lies in -9223372036854775808..9223372036854775807, the range of
\* isize; a literal outside that range is inferred as Float.
C13_IntegerWithinIsize ==
  (query.fam = "integer" /\ pc = "done") =>
    /\ result.some /\ result.v.ok
    /\ DOMAIN result.v.v.entity = { <<"v">> }
    /\ IF FitsIsize(query.neg, Magnitude(query.digits))
         THEN LiteralValue = Integer(LiteralNumber)
         ELSE /\ LiteralValue.type = "Float"
              /\ LiteralValue.v.kind = "num"
              /\ LiteralValue.v.neg = query.neg

C13_Witness ==
  /\ query.fam = "integer" /\ pc = "done"
  /\ query.neg
  /\ Magnitude(query.digits) = << 9,2,2,3,3,7,2,0,3,6,8,5,4,7,7,5,8,0,8 >>
  /\ result.v.ok
  /\ LiteralValue.type = "Integer"

\* C14 --------------------------------------------------------------------
\* the mapping a sequence of entries denotes: one entry per key, holding the
\* value of the last entry with that key
ItemsMap(items) ==
  [k \in { items[i].key : i \in 1..Len(items) } |->
     LET last == CHOOSE i \in 1..Len(items) :
                   /\ items[i].key = k
                   /\ \A j \in (i + 1)..Len(items) : items[j].key # k
     IN items[last].expect]

\* C14: every payload { entry* } whose entries are separated by any mixture
\* of zero or more whitespace characters and commas is accepted; the
\* separators are part of no key and no value, and the mapping returned has
\* one entry per key.
C14_PayloadAccepted ==
  (query.fam = "payload" /\ pc = "done") =>
    /\ result.some /\ result.v.ok
    /\ result.v.v.cmd = "Insert"
    /\ IF query.items = << >> THEN result.v.v.entity = EmptyMap
       ELSE /\ DOMAIN result.v.v.entity = DOMAIN ItemsMap(query.items)
            /\ \A k \in DOMAIN ItemsMap(query.items) :
                 result.v.v.entity[k] = ItemsMap(query.items)[k]

\* C15 --------------------------------------------------------------------
\* C15: in every Entity returned by a successful parse, every key is a
\* non-empty text of alphanumeric and underscore characters only.
C15_KeysAreIdentifiers ==
  (pc = "done" /\ result.some /\ result.v.ok /\ result.v.v.cmd = "Insert") =>
    \A k \in DOMAIN result.v.v.entity :
      /\ k # << >>
      /\ \A i \in 1..Len(k) : k[i] \in NameChars

\* C16 --------------------------------------------------------------------
CompletedKeys == { query.items[i].key : i \in 1..Len(query.items) }

\* C16: when the map loop reads the closing brace while a key is pending
\* without a value, the map parser returns the mapping of the completed
\* entries only, the pending key adding no entry to it, and no error is
\* raised.
C16_PendingKeyDropped ==
  (query.fam = "pending" /\ pc \in {"insert_into", "done"}) =>
    /\ key = Some(query.open.key)
    /\ DOMAIN res = CompletedKeys
    /\ \A k \in CompletedKeys : res[k] = ItemsMap(query.items)[k]
    /\ query.open.key \notin CompletedKeys => query.open.key \notin DOMAIN res
    /\ pc = "insert_into" => result = None
    /\ pc = "done" =>
         /\ result.v.ok
         /\ result.v.v.cmd = "Insert"
         /\ result.v.v.entity = res

C16_Witness ==
  /\ query.fam = "pending" /\ pc = "done"
  /\ key = Some(<<"b">>)
  /\ DOMAIN res = { <<"a">> }
  /\ result.v.ok
  /\ DOMAIN result.v.v.entity = { <<"a">> }

\* C17 --------------------------------------------------------------------
\* the index of the character behind the one that ends the first token
PayloadStart == SkipBlank(input, 1) + Len(FirstWord) + 1

\* C17: an INSERT whose payload does not begin with { right behind the one
\* character that ends the keyword fails with "Entity map should start with
\* '{' and end with '}'"; an INSERT whose input ends while the map loop waits
\* for the next character fails with "Entity HashMap could not be created";
\* no input without a closing brace yields an Insert command.
C17_MalformedMap ==
  pc = "done" =>
    /\ ( /\ SameWord(FirstWord, INSERT)
         /\ (PayloadStart > Len(input) \/ input[PayloadStart] # "{") ) =>
         result = Failed("Entity map should start with '{' and end with '}'")
    /\ query.fam = "unclosed" =>
         /\ result = Failed("Entity HashMap could not be created")
         /\ pos = Len(input)
    /\ (result.v.ok /\ result.v.v.cmd = "Insert") =>
         \E i \in 1..pos : input[i] = "}"

C17_Witness ==
  /\ pc = "done"
  /\ SameWord(FirstWord, INSERT)
  /\ PayloadStart < Len(input)
  /\ input[PayloadStart] = " " /\ input[PayloadStart + 1] = "{"
  /\ result = Failed("Entity map should start with '{' and end with '}'")

\* C18 --------------------------------------------------------------------
InLoop(p) == p \in {"read_map", "read_str"}

\* a step of the map loop or of the string reader either consumes at least
\* one character or finds the input at its end and stops the parse
LoopStep ==
  InLoop(pc) =>
    /\ pos < Len(input) => pos' > pos
    /\ pos = Len(input) => pc' = "done" /\ ~result'.v.ok
    /\ InLoop(pc') => pos' > pos

\* C18: parsing terminates on every input with a command or an error; every
\* iteration of the map loop and every step of the string reader consumes at
\* least one character of the cursor, which never passes the end of the
\* input, so the steps are bounded by the input's length.
C18_Terminates ==
  /\ <>(pc = "done" /\ result.some)
  /\ [][LoopStep]_vars
  /\ [](pos <= Len(input))

C18_Witness ==
  /\ pc = "done"
  /\ query.fam = "string"
  /\ Len(query.pieces) = 1
  /\ result.v.ok
  /\ pos = Len(input)

\* C19 --------------------------------------------------------------------
AllBlanks(sep) == \A i \in 1..Len(sep) : sep[i] \in Blank

\* C19: the create-entity reader tolerates exactly one whitespace character
\* between tokens.  With two or more between CREATE and ENTITY the second
\* keyword is read as empty and the parse fails with "Keyword ENTITY is
\* required for CREATE"; with two or more between ENTITY and the name the
\* parse succeeds with CreateEntity of the empty name.
C19_OneWhitespaceOnly ==
  (query.fam = "create" /\ pc = "done" /\ SameWord(query.kw, CREATE)) =>
    /\ (Len(query.sep1) >= 2 /\ AllBlanks(query.sep1)) =>
         /\ result = Failed("Keyword ENTITY is required for CREATE")
         /\ pos = Len(query.kw) + 2
    /\ ( /\ OneBlank(query.sep1) /\ SameWord(query.kw2, ENTITY)
         /\ Len(query.sep2) >= 2 /\ AllBlanks(query.sep2) ) =>
         result = Returned(CreateEntity(<< >>))

C19_Witness ==
  /\ query.fam = "create" /\ pc = "done"
  /\ query.kw = CREATE /\ query.sep1 = <<" ">>
  /\ query.kw2 = ENTITY /\ Len(query.sep2) = 3
  /\ query.name = <<"a", "_">>
  /\ result = Returned(CreateEntity(<< >>))

\* C20 --------------------------------------------------------------------
\* the query reaches the entity name of a CREATE ENTITY or INSERT ... INTO
ReachesName ==
  \/ /\ query.fam = "create"
     /\ SameWord(query.kw, CREATE) /\ OneBlank(query.sep1)
     /\ SameWord(query.kw2, ENTITY)
  \/ /\ query.fam = "frame"
     /\ MapParsed(query) /\ SameWord(query.into, INTO)

\* the alphanumeric/underscore run read as the name: the name written when
\* one whitespace character precedes it, empty when more do
NameRun ==
  IF query.fam = "create"
    THEN (IF OneBlank(query.sep2) THEN query.name ELSE << >>)
    ELSE (IF OneBlank(query.sep) THEN query.name ELSE << >>)

\* the result as given by the query up to its name, the tail not looked at
ResultUpToName ==
  IF query.fam = "create" THEN Returned(CreateEntity(NameRun))
  ELSE IF NameRun = << >> THEN Failed("Entity name is required after INTO")
  ELSE Returned(Insert(NameRun, BodyExpect(query.body).v))

\* the cursor when the character that ends the name run has been consumed
BehindName ==
  Len(input) - Len(query.tail) + (IF query.tail = << >> THEN 0 ELSE 1)

\* C20: the result does not depend on anything after the entity name.  The
\* result of a CREATE ENTITY or INSERT ... INTO query is given by the query
\* up to its name alone, and the cursor stops no later than one past the
\* character that ends the name run, so two queries that agree up to and
\* including that character return the same result: text after the name is
\* ignored and causes no error.
C20_TrailingTextIgnored ==
  (pc = "done" /\ query.fam \in {"create", "frame"} /\ ReachesName) =>
    /\ result = ResultUpToName
    /\ pos <= BehindName

C20_Witness ==
  /\ pc = "done" /\ query.fam = "create" /\ ReachesName
  /\ query.tail = << " ","y","\n","z" >>
  /\ query.name = <<"a", "9">>
  /\ result = Returned(CreateEntity(<<"a", "9">>))
  /\ pos = Len(input) - 3

====
